---------------------------- MODULE Spec2Model ----------------------------
(***************************************************************************)
(* Model of apps/zkp-mock/src/main.rs: an axum server with two routes,     *)
(* POST /generate (JSON extractor, println, 2 s sleep, echo response) and  *)
(* POST /verify (constant response).                                       *)
(*                                                                         *)
(* Each request is one tokio task.  A task runs atomically from one await  *)
(* point to the next: GenerateStart is generate_proof from the extraction  *)
(* to the sleep's await (println, timer registration), GenerateFinish is   *)
(* the rest of it, from the timer's firing to the response; the tasks that *)
(* never sleep (a rejected body, /verify, no route) are one step each.     *)
(* Time is a discrete clock of seconds.  The statuses of the framework's   *)
(* own responses (404, 405, 400, 415, 422) are those of axum's router and  *)
(* Json extractor, which main.rs uses unchanged.                           *)
(***************************************************************************)
EXTENDS Integers, Sequences, FiniteSets, TLC

(* ------------------------------ bounds -------------------------------- *)

\* Number of requests (connections) a behaviour may hold.
MaxReq == 3

\* Last second of the clock.
MaxClock == 3

(* ------------------------- program constants -------------------------- *)

\* sleep(Duration::from_secs(2))
DelaySecs == 2

\* A u32 is two 16-bit limbs: value = hi * Limb + lo.  (TLC's integers are
\* 32-bit signed, so 2^32 - 1 and 2^32 themselves are not representable.)
Limb == 2 ^ 16

ZkProofLiteral == "mock_zk_proof_data_xyz123"

StatusLiteral == "VERIFIED"

VARIABLES
    proc,       \* the process: "starting", "serving", "aborted"
    listener,   \* "none" or "bound": the TcpListener on 0.0.0.0:4000
    clock,      \* seconds since the start
    reqs,       \* per connection: the request, its task's position and state
    stdout      \* the lines printed to standard output, in order

vars == <<proc, listener, clock, reqs, stdout>>

Slots == 1 .. MaxReq

(* ------------------------------ JSON ---------------------------------- *)

\* A JSON value of a body field.  An integer n is sign and two limbs:
\* |n| = hi * Limb + lo, with 0 <= lo < Limb and hi unbounded.
JAbsent == [t |-> "absent", neg |-> FALSE, hi |-> 0, lo |-> 0, s |-> ""]

JInt(neg, hi, lo) == [t |-> "int", neg |-> neg, hi |-> hi, lo |-> lo, s |-> ""]

JStr(s) == [t |-> "str", neg |-> FALSE, hi |-> 0, lo |-> 0, s |-> s]

\* Request bodies: nothing at all, bytes that are not JSON, or a JSON object
\* with (possibly absent) fields proof_id and pdf_hash.
EmptyBody == [kind |-> "empty", proof_id |-> JAbsent, pdf_hash |-> JAbsent]

GarbageBody == [kind |-> "garbage", proof_id |-> JAbsent, pdf_hash |-> JAbsent]

ObjectBody(id, hash) == [kind |-> "object", proof_id |-> id, pdf_hash |-> hash]

Request(method, path, json, body) == [method |-> method, path |-> path, json |-> json, body |-> body]

NoRequest == Request("", "", FALSE, EmptyBody)

(* --------------------------- ProofRequest ----------------------------- *)

\* Mutant of IsU32: the integer is read at a wider width and cast (as u32).
IsU32Cast(v) == v.t = "int"

\* proof_id: u32 -- serde accepts a JSON integer in 0 .. 2^32 - 1 only.
IsU32(v) == v.t = "int" /\ ~v.neg /\ v.hi < Limb /\ v.lo < Limb

\* The u32 a JSON integer deserializes to.
DeU32(v) == [hi |-> v.hi, lo |-> v.lo]

\* pdf_hash: String -- serde accepts a JSON string only.
IsString(v) == v.t = "str"

NoPayload == [proof_id |-> [hi |-> 0, lo |-> 0], pdf_hash |-> ""]

\* Mutant of DeserializeProofRequest: pdf_hash under #[serde(default)], a
\* body without it deserializes with the empty string.
DeserializeProofRequestDefaulted(body) ==
    IF IsU32(body.proof_id) /\ body.pdf_hash.t \in {"str", "absent"}
    THEN [ok |-> TRUE,
          payload |-> [proof_id |-> DeU32(body.proof_id), pdf_hash |-> body.pdf_hash.s]]
    ELSE [ok |-> FALSE, payload |-> NoPayload]

\* #[derive(Deserialize)] struct ProofRequest: both fields required.
DeserializeProofRequest(body) ==
    IF IsU32(body.proof_id) /\ IsString(body.pdf_hash)
    THEN [ok |-> TRUE,
          payload |-> [proof_id |-> DeU32(body.proof_id), pdf_hash |-> body.pdf_hash.s]]
    ELSE [ok |-> FALSE, payload |-> NoPayload]

\* The Json<ProofRequest> extractor: the rejection's status, or 0 and the payload.
\* axum rejects a missing JSON content type with 415, bytes that are not JSON
\* with 400, and JSON that is no ProofRequest with 422.
JsonExtract(req) ==
    IF ~req.json THEN [status |-> 415, payload |-> NoPayload]
    ELSE IF req.body.kind # "object" THEN [status |-> 400, payload |-> NoPayload]
    ELSE LET d == DeserializeProofRequest(req.body)
         IN  IF d.ok THEN [status |-> 0, payload |-> d.payload]
             ELSE [status |-> 422, payload |-> NoPayload]

(* --------------------------- responses -------------------------------- *)

\* A response body: kind "proof" (ProofResponse), "valid" (json!({"valid": ..})),
\* or "none" (the framework's own error and rejection responses).
Body(kind, id, hash, zk, status, valid) == [kind |-> kind, proof_id |-> id, pdf_hash |-> hash, zk_proof |-> zk, status |-> status, valid |-> valid]

NoBody == Body("none", JAbsent, JAbsent, "", "", FALSE)

Reply(status, body) == [status |-> status, body |-> body]

NoReply == Reply(0, NoBody)

\* #[derive(Serialize)]: a u32 is written as a non-negative JSON integer.
SerU32(u) == JInt(FALSE, u.hi, u.lo)

\* Mutant of ProofResponse: the two literals in each other's field.
ProofResponseSwapped(payload) ==
    Reply(200, Body("proof", SerU32(payload.proof_id), JStr(payload.pdf_hash),
                    StatusLiteral, ZkProofLiteral, FALSE))

\* Json(ProofResponse { proof_id, pdf_hash, zk_proof, status })
ProofResponse(payload) ==
    Reply(200, Body("proof", SerU32(payload.proof_id), JStr(payload.pdf_hash),
                    ZkProofLiteral, StatusLiteral, FALSE))

\* Mutant of verify_proof: the handler takes a Json<Value> extractor, so a
\* body that is not JSON is rejected.
verify_proof_extracting(req) ==
    IF req.json /\ req.body.kind = "object"
    THEN Reply(200, Body("valid", JAbsent, JAbsent, "", "", TRUE))
    ELSE Reply(IF req.json THEN 400 ELSE 415, NoBody)

\* verify_proof takes no extractor: the request is not looked at.
verify_proof(req) == Reply(200, Body("valid", JAbsent, JAbsent, "", "", TRUE))

\* Router::new().route("/generate", post(..)).route("/verify", post(..))
Route(req) ==
    IF req.path \notin {"/generate", "/verify"} THEN "404"
    ELSE IF req.method # "POST" THEN "405"
    ELSE req.path

(* ------------------------------ state --------------------------------- *)

NewConn ==
    [st |-> "new", req |-> NoRequest, sentAt |-> 0, payload |-> NoPayload,
     deadline |-> 0, resp |-> NoReply, respAt |-> 0, nresp |-> 0]

Init ==
    /\ proc = "starting"
    /\ listener = "none"
    /\ clock = 0
    /\ reqs = [r \in Slots |-> NewConn]
    /\ stdout = <<>>

(* ------------------------------ inputs -------------------------------- *)

\* proof_id values on the wire: 0, 42, 2^32 - 1 (the u32 range and its ends),
\* 2^32, 2^32 + 42, -1 (integers outside it), a string, and no field at all.
ProofIdValues ==
    {JInt(FALSE, 0, 0), JInt(FALSE, 0, 42), JInt(FALSE, Limb - 1, Limb - 1),
     JInt(FALSE, Limb, 0), JInt(FALSE, Limb, 42), JInt(TRUE, 0, 1),
     JStr("not-a-number"), JAbsent}

\* pdf_hash values on the wire: strings, an integer, and no field at all.
PdfHashValues == {JStr("abc123"), JStr(""), JInt(FALSE, 0, 7), JAbsent}

Bodies ==
    {EmptyBody, GarbageBody} \cup {ObjectBody(id, h) : id \in ProofIdValues, h \in PdfHashValues}

\* Every request of the wire domain: /generate with every body, with and
\* without the JSON content type; /verify with an empty, a malformed and a
\* well-formed body; requests no route matches.
Requests ==
    {Request("POST", "/generate", TRUE, b) : b \in Bodies}
    \cup {Request("POST", "/generate", FALSE, ObjectBody(JInt(FALSE, 0, 42), JStr("abc123")))}
    \cup {Request("POST", "/verify", j, b) : j \in BOOLEAN,
              b \in {EmptyBody, GarbageBody, ObjectBody(JInt(FALSE, 0, 42), JStr("abc123"))}}
    \cup {Request("GET", "/generate", TRUE, EmptyBody), Request("GET", "/verify", FALSE, EmptyBody),
          Request("POST", "/other", TRUE, EmptyBody)}

\* The requests concurrent clients send: two well-formed /generate requests
\* with distinct proof_ids, two malformed ones, /verify with three kinds of body,
\* and a request no route matches.
Workload ==
    {Request("POST", "/generate", TRUE, ObjectBody(JInt(FALSE, 0, 42), JStr("abc123"))),
     Request("POST", "/generate", TRUE, ObjectBody(JInt(FALSE, Limb - 1, Limb - 1), JStr(""))),
     Request("POST", "/generate", TRUE, ObjectBody(JStr("not-a-number"), JAbsent)),
     Request("POST", "/generate", TRUE, ObjectBody(JInt(FALSE, 0, 42), JAbsent)),
     Request("POST", "/verify", FALSE, EmptyBody),
     Request("POST", "/verify", TRUE, GarbageBody),
     Request("POST", "/verify", TRUE, ObjectBody(JInt(FALSE, 0, 42), JStr("abc123"))),
     Request("GET", "/verify", FALSE, EmptyBody)}

(* ------------------------------ actions ------------------------------- *)

\* TcpListener::bind("0.0.0.0:4000").await succeeds; axum::serve starts.
BindOk ==
    /\ proc = "starting"
    /\ listener' = "bound"
    /\ proc' = "serving"
    /\ UNCHANGED <<clock, reqs, stdout>>

\* Mutant of OnBindError: the Err is dropped and main goes on to serve.
OnBindErrorIgnored == "serving"

\* .unwrap() on the bind's Err panics: main never reaches axum::serve.
OnBindError == "aborted"

\* TcpListener::bind fails (the port is taken, no permission, ...).
BindFail ==
    /\ proc = "starting"
    /\ proc' = OnBindError
    /\ UNCHANGED <<listener, clock, reqs, stdout>>

\* A second passes.
Tick ==
    /\ clock < MaxClock
    /\ clock' = clock + 1
    /\ UNCHANGED <<proc, listener, reqs, stdout>>

\* Mutant of CanAccept: the delay blocks the thread (std::thread::sleep on a
\* single-threaded runtime), nothing is accepted while a task sleeps.
CanAcceptBlocking == proc = "serving" /\ \A q \in Slots : reqs[q].st # "sleeping"

\* axum::serve accepts a connection and spawns its task whenever the process
\* is serving; tasks that sleep do not hold the accept loop.
CanAccept == proc = "serving"

\* Connection r carries a new request: connections are numbered in the order
\* they are accepted, and none is accepted so late that its delay would end
\* after the last second of the clock.
Arrives(r) ==
    /\ CanAccept
    /\ reqs[r].st = "new"
    /\ r > 1 => reqs[r - 1].st # "new"
    /\ clock + DelaySecs <= MaxClock

\* The task's answer leaves on connection r.
Answer(conn, reply) ==
    [conn EXCEPT !.st = "done", !.resp = reply, !.respAt = clock, !.nresp = @ + 1]

\* Mutant of Println: the line is not written.
PrintlnDropped(out, id) == out

\* println!("Received proof request for ID: {}", payload.proof_id)
Println(out, id) ==
    Append(out, [text |-> "Received proof request for ID: ", id |-> SerU32(id), at |-> clock])

\* Mutant of SleepDeadline: Duration::from_millis(2), no whole second.
SleepDeadlineMillis(now) == now

\* Mutant of SleepDeadline: the delays queue one behind the other, a sleep
\* starts when the sleeps before it are over.
SleepDeadlineQueued(now) ==
    LET busy == {reqs[q].deadline : q \in {x \in Slots : reqs[x].st = "sleeping"}} \cup {now}
    IN  (CHOOSE d \in busy : \A e \in busy : e <= d) + DelaySecs

\* sleep(Duration::from_secs(2)): the instant the timer is due.
SleepDeadline(now) == now + DelaySecs

\* No route matches: the router answers 404 (path) or 405 (method).
NotRouted(r, req) ==
    /\ Arrives(r)
    /\ Route(req) \in {"404", "405"}
    /\ reqs' = [reqs EXCEPT ![r] =
            Answer([@ EXCEPT !.req = req, !.sentAt = clock],
                   Reply(IF Route(req) = "404" THEN 404 ELSE 405, NoBody))]
    /\ UNCHANGED <<proc, listener, clock, stdout>>

\* POST /generate whose body the Json<ProofRequest> extractor rejects: the
\* rejection is the response, generate_proof is never called.
GenerateRejected(r, req) ==
    /\ Arrives(r)
    /\ Route(req) = "/generate"
    /\ JsonExtract(req).status # 0
    /\ reqs' = [reqs EXCEPT ![r] =
            Answer([@ EXCEPT !.req = req, !.sentAt = clock],
                   Reply(JsonExtract(req).status, NoBody))]
    /\ UNCHANGED <<proc, listener, clock, stdout>>

\* generate_proof up to its await: the log line, then the sleep is registered.
GenerateStart(r, req) ==
    /\ Arrives(r)
    /\ Route(req) = "/generate"
    /\ JsonExtract(req).status = 0
    /\ stdout' = Println(stdout, JsonExtract(req).payload.proof_id)
    /\ reqs' = [reqs EXCEPT ![r] =
            [@ EXCEPT !.st = "sleeping", !.req = req, !.sentAt = clock,
                      !.payload = JsonExtract(req).payload,
                      !.deadline = SleepDeadline(clock)]]
    /\ UNCHANGED <<proc, listener, clock>>

\* Mutant of TaskPayload: the payload is kept in one shared cell that every
\* request overwrites; a task reads the payload written last.
TaskPayloadShared(r) ==
    LET started == {q \in Slots : reqs[q].st # "new" /\ reqs[q].deadline > 0}
    IN  reqs[CHOOSE q \in started : \A x \in started : x <= q].payload

\* The payload task r moved into its future.
TaskPayload(r) == reqs[r].payload

\* generate_proof after its await: the timer fired (at its deadline or later),
\* the response is built from the task's own payload.
GenerateFinish(r) ==
    /\ reqs[r].st = "sleeping"
    /\ clock >= reqs[r].deadline
    /\ reqs' = [reqs EXCEPT ![r] = Answer(@, ProofResponse(TaskPayload(r)))]
    /\ UNCHANGED <<proc, listener, clock, stdout>>

\* POST /verify: verify_proof runs to its end.
Verify(r, req) ==
    /\ Arrives(r)
    /\ Route(req) = "/verify"
    /\ reqs' = [reqs EXCEPT ![r] =
            Answer([@ EXCEPT !.req = req, !.sentAt = clock], verify_proof(req))]
    /\ UNCHANGED <<proc, listener, clock, stdout>>

\* Concurrent clients sending requests of Workload.
Next ==
    \/ BindOk
    \/ BindFail
    \/ Tick
    \/ \E r \in Slots, req \in Workload : NotRouted(r, req)
    \/ \E r \in Slots, req \in Workload : GenerateRejected(r, req)
    \/ \E r \in Slots, req \in Workload : GenerateStart(r, req)
    \/ \E r \in Slots, req \in Workload : Verify(r, req)
    \/ \E r \in Slots : GenerateFinish(r)

Spec == Init /\ [][Next]_vars

\* The runtime polls a task whose timer fired, and time passes.
FairSpec == Spec /\ WF_vars(Tick) /\ \A r \in Slots : WF_vars(GenerateFinish(r))

\* One client sending two requests, the second after the first was answered,
\* each any request of the wire domain.
Sequential(r) == r = 1 \/ (r = 2 /\ reqs[1].st = "done")

NextWire ==
    \/ BindOk
    \/ BindFail
    \/ Tick
    \/ \E r \in Slots, req \in Requests : Sequential(r) /\ NotRouted(r, req)
    \/ \E r \in Slots, req \in Requests : Sequential(r) /\ GenerateRejected(r, req)
    \/ \E r \in Slots, req \in Requests : Sequential(r) /\ GenerateStart(r, req)
    \/ \E r \in Slots, req \in Requests : Sequential(r) /\ Verify(r, req)
    \/ \E r \in Slots : GenerateFinish(r)

WireSpec == Init /\ [][NextWire]_vars

(* ====================== properties of the program ===================== *)

Received(r) == reqs[r].st # "new"

Answered(r) == reqs[r].st = "done"

Sleeping(r) == reqs[r].st = "sleeping"

ClientError(status) == status \in 400 .. 499

\* A JSON integer within 0 .. 2^32 - 1, stated on the wire value: not negative,
\* and at most 2^32 - 1 = (2^16 - 1) * 2^16 + (2^16 - 1).
InU32Range(v) == v.t = "int" /\ v.neg = FALSE /\ v.hi <= 65535 /\ v.lo <= 65535

PostGenerate(req) == req.method = "POST" /\ req.path = "/generate"

PostVerify(req) == req.method = "POST" /\ req.path = "/verify"

\* A valid /generate request: a JSON object with a u32 proof_id and a string pdf_hash.
ValidGenerate(req) ==
    /\ PostGenerate(req)
    /\ req.json
    /\ req.body.kind = "object"
    /\ InU32Range(req.body.proof_id)
    /\ req.body.pdf_hash.t = "str"

\* A /generate request whose body misses a required field or has one of the wrong type.
MalformedGenerate(req) ==
    /\ PostGenerate(req)
    /\ req.json
    /\ req.body.kind = "object"
    /\ (req.body.proof_id.t # "int" \/ req.body.pdf_hash.t # "str")

\* C1: every valid /generate request is accepted, and its response has status
\* 200, the request's own proof_id and pdf_hash, zk_proof
\* "mock_zk_proof_data_xyz123" and status "VERIFIED".
C1_GenerateEchoesRequest ==
    \A r \in Slots :
        (Received(r) /\ ValidGenerate(reqs[r].req)) =>
            /\ Answered(r) \/ Sleeping(r)
            /\ Answered(r) =>
                /\ reqs[r].resp.status = 200
                /\ reqs[r].resp.body.kind = "proof"
                /\ reqs[r].resp.body.proof_id = reqs[r].req.body.proof_id
                /\ reqs[r].resp.body.pdf_hash = reqs[r].req.body.pdf_hash
                /\ reqs[r].resp.body.zk_proof = "mock_zk_proof_data_xyz123"
                /\ reqs[r].resp.body.status = "VERIFIED"

\* A valid request with proof_id 42 and pdf_hash "abc123" was answered.
C1_Witness ==
    \E r \in Slots :
        /\ Answered(r)
        /\ ValidGenerate(reqs[r].req)
        /\ reqs[r].req.body.proof_id = JInt(FALSE, 0, 42)
        /\ reqs[r].req.body.pdf_hash = JStr("abc123")
        /\ reqs[r].resp.status = 200

\* C2 as stated: no POST /generate request, whatever its body, is answered
\* less than 2 seconds after it was sent.
C2_AnyGenerateBodyDelayed ==
    \A r \in Slots :
        (Answered(r) /\ PostGenerate(reqs[r].req)) => reqs[r].respAt >= reqs[r].sentAt + 2

\* C2, amended: no /generate request the extractor accepts (none answered with
\* status 200) is answered less than 2 seconds after it was sent; a request
\* whose body is rejected is answered without the delay.
C2_AcceptedGenerateDelayed ==
    \A r \in Slots :
        /\ (Received(r) /\ ValidGenerate(reqs[r].req) /\ Answered(r)) =>
                reqs[r].respAt >= reqs[r].sentAt + 2
        /\ (Answered(r) /\ PostGenerate(reqs[r].req) /\ reqs[r].resp.status = 200) =>
                reqs[r].respAt >= reqs[r].sentAt + 2
        /\ (Answered(r) /\ PostGenerate(reqs[r].req) /\ ~ValidGenerate(reqs[r].req)) =>
                reqs[r].respAt = reqs[r].sentAt

\* A valid request was answered exactly 2 seconds after it was sent.
C2_Witness ==
    \E r \in Slots :
        /\ Answered(r)
        /\ ValidGenerate(reqs[r].req)
        /\ reqs[r].respAt = reqs[r].sentAt + 2

\* Connection r may carry a request now, as far as the clients and the clock
\* of the model go: it is the next connection, and the clock leaves room.
NextConnection(r) ==
    /\ reqs[r].st = "new"
    /\ r > 1 => reqs[r - 1].st # "new"
    /\ clock + 2 <= MaxClock

\* C3: POST /verify with any body is answered {"valid": true} with status
\* 200 in the step that handles it, however many /generate requests wait.
C3_VerifyConstantImmediate ==
    \A r \in Slots :
        (Received(r) /\ PostVerify(reqs[r].req)) =>
            /\ Answered(r)
            /\ reqs[r].resp.status = 200
            /\ reqs[r].resp.body = Body("valid", JAbsent, JAbsent, "", "", TRUE)
            /\ reqs[r].respAt = reqs[r].sentAt
            /\ reqs[r].nresp = 1

\* /verify with a body that is not JSON was answered while two /generate
\* requests received before it were still waiting.
C3_Witness ==
    \E r \in Slots :
        /\ Answered(r)
        /\ PostVerify(reqs[r].req)
        /\ reqs[r].req.body.kind = "garbage"
        /\ reqs[r].resp.body.valid
        /\ Cardinality({q \in Slots : q < r /\ Sleeping(q)}) >= 2

\* C4: a malformed /generate body is answered with a 4xx status, never 200;
\* the process keeps serving, and requests after the error are accepted and
\* answered as they are without it.
C4_MalformedRejectedServerLives ==
    /\ \A r \in Slots :
        (Received(r) /\ MalformedGenerate(reqs[r].req)) =>
            /\ Answered(r)
            /\ ClientError(reqs[r].resp.status)
            /\ reqs[r].resp.status # 200
    /\ (\E r \in Slots : Received(r)) => proc = "serving"
    /\ \A r, q \in Slots :
        (r < q /\ Received(r) /\ MalformedGenerate(reqs[r].req)) =>
            /\ NextConnection(q) =>
                \A req \in Workload :
                    ENABLED (NotRouted(q, req) \/ GenerateRejected(q, req)
                                \/ GenerateStart(q, req) \/ Verify(q, req))
            /\ (Answered(q) /\ PostVerify(reqs[q].req)) => reqs[q].resp.status = 200
            /\ (Answered(q) /\ ValidGenerate(reqs[q].req)) =>
                    /\ reqs[q].resp.status = 200
                    /\ reqs[q].resp.body.proof_id = reqs[q].req.body.proof_id

\* A request without pdf_hash got a 4xx; a valid /generate and a /verify sent
\* after that answer both got 200.
C4_Witness ==
    \E r, g, v \in Slots :
        /\ r < g /\ r < v
        /\ Answered(r) /\ MalformedGenerate(reqs[r].req)
        /\ reqs[r].req.body.pdf_hash = JAbsent
        /\ reqs[r].req.body.proof_id.t = "int"
        /\ ClientError(reqs[r].resp.status)
        /\ Answered(g) /\ ValidGenerate(reqs[g].req) /\ reqs[g].resp.status = 200
        /\ reqs[g].sentAt >= reqs[r].respAt
        /\ Answered(v) /\ PostVerify(reqs[v].req) /\ reqs[v].resp.status = 200
        /\ reqs[v].sentAt >= reqs[r].respAt

\* The state part of C5: a waiting request has no response yet, its delay
\* ends 2 seconds after it was sent whatever else is waiting, and once the
\* delay is over the response can be sent; an answered request got exactly
\* one response, with its own proof_id and pdf_hash.
C5_OwnDelayOwnResponse ==
    \A r \in Slots :
        (Received(r) /\ ValidGenerate(reqs[r].req)) =>
            /\ Sleeping(r) =>
                /\ reqs[r].nresp = 0
                /\ reqs[r].deadline = reqs[r].sentAt + 2
                /\ clock >= reqs[r].sentAt + 2 => ENABLED GenerateFinish(r)
            /\ Answered(r) =>
                /\ reqs[r].nresp = 1
                /\ reqs[r].resp.body.proof_id = reqs[r].req.body.proof_id
                /\ reqs[r].resp.body.pdf_hash = reqs[r].req.body.pdf_hash

\* C5: concurrent valid /generate requests each get exactly one response,
\* their own, eventually; the delays overlap: each response can be sent 2
\* seconds after its own request, not after the delays of the others.
C5_ConcurrentGenerates ==
    /\ []C5_OwnDelayOwnResponse
    /\ \A r \in Slots : Sleeping(r) ~> Answered(r)

\* Two requests with distinct proof_ids, sent in the same second, were both
\* answered 2 seconds later.
C5_Witness ==
    \E r, q \in Slots :
        /\ r # q
        /\ Answered(r) /\ Answered(q)
        /\ ValidGenerate(reqs[r].req) /\ ValidGenerate(reqs[q].req)
        /\ reqs[r].req.body.proof_id # reqs[q].req.body.proof_id
        /\ reqs[r].sentAt = reqs[q].sentAt
        /\ reqs[r].respAt = reqs[r].sentAt + 2
        /\ reqs[q].respAt = reqs[q].sentAt + 2

\* The calls of generate_proof (the requests the extractor accepted).
Calls == {r \in Slots : Received(r) /\ ValidGenerate(reqs[r].req)}

C7_BindFailureAborts ==
    /\ (listener = "none" /\ proc # "starting") => proc = "aborted"
    /\ proc = "aborted" =>
        /\ listener = "none"
        /\ \A r \in Slots : ~Received(r)
        /\ stdout = <<>>
        /\ ~ENABLED (BindOk \/ BindFail)
        /\ \A r \in Slots, req \in Workload :
            ~ENABLED (NotRouted(r, req) \/ GenerateRejected(r, req)
                        \/ GenerateStart(r, req) \/ Verify(r, req))
    /\ (\E r \in Slots : Received(r)) => (listener = "bound" /\ proc = "serving")

\* The bind failed and a second has passed.
C7_Witness == proc = "aborted" /\ listener = "none" /\ clock > 0

\* C8: the delay suspends only its own task: whatever waits, the next
\* request, /verify or /generate, is accepted and handled, and a /verify is
\* answered at once.
C8_DelaySuspendsOnlyItsTask ==
    \A r \in Slots :
        /\ (proc = "serving" /\ NextConnection(r)) =>
            \A req \in Workload :
                ENABLED (NotRouted(r, req) \/ GenerateRejected(r, req)
                            \/ GenerateStart(r, req) \/ Verify(r, req))
        /\ (Received(r) /\ PostVerify(reqs[r].req)) =>
                (Answered(r) /\ reqs[r].respAt = reqs[r].sentAt)

\* A /verify that arrived a second after a /generate has its answer while the
\* /generate still waits, and a further /generate was accepted too.
C8_Witness ==
    \E g, v, h \in Slots :
        /\ g < v /\ g < h
        /\ Sleeping(g) /\ ValidGenerate(reqs[g].req)
        /\ Answered(v) /\ PostVerify(reqs[v].req)
        /\ reqs[v].sentAt > reqs[g].sentAt
        /\ reqs[v].respAt < reqs[g].deadline
        /\ Sleeping(h) /\ ValidGenerate(reqs[h].req)

\* An integer proof_id outside 0 .. 2^32 - 1.
OutOfU32(v) == v.t = "int" /\ ~InU32Range(v)

\* C9: an integer proof_id outside 0 .. 2^32 - 1 is rejected with a 4xx
\* status, never accepted wrapped; an accepted request's echoed proof_id is
\* within 0 .. 2^32 - 1 and is the one sent.
C9_ProofIdIsU32 ==
    \A r \in Slots :
        /\ (Received(r) /\ PostGenerate(reqs[r].req) /\ reqs[r].req.json
                /\ reqs[r].req.body.kind = "object" /\ OutOfU32(reqs[r].req.body.proof_id)) =>
            (Answered(r) /\ ClientError(reqs[r].resp.status))
        /\ (Answered(r) /\ PostGenerate(reqs[r].req) /\ reqs[r].resp.status = 200) =>
            /\ InU32Range(reqs[r].resp.body.proof_id)
            /\ reqs[r].resp.body.proof_id = reqs[r].req.body.proof_id

\* proof_id 2^32 was rejected and proof_id 2^32 - 1 was echoed.
C9_Witness ==
    \E r, q \in Slots :
        /\ Answered(r) /\ PostGenerate(reqs[r].req)
        /\ reqs[r].req.body.proof_id = JInt(FALSE, 65536, 0)
        /\ reqs[r].req.body.pdf_hash.t = "str"
        /\ ClientError(reqs[r].resp.status)
        /\ Answered(q) /\ PostGenerate(reqs[q].req)
        /\ reqs[q].req.body.proof_id = JInt(FALSE, 65535, 65535)
        /\ reqs[q].resp.status = 200
        /\ reqs[q].resp.body.proof_id = JInt(FALSE, 65535, 65535)

\* The response the routes compute from one request taken alone, with no
\* other request and no state of the process in sight.
ReplyTo(req) ==
    IF Route(req) = "/verify" THEN verify_proof(req)
    ELSE IF Route(req) = "/generate"
         THEN IF JsonExtract(req).status = 0
              THEN ProofResponse(JsonExtract(req).payload)
              ELSE Reply(JsonExtract(req).status, NoBody)
    ELSE Reply(IF Route(req) = "404" THEN 404 ELSE 405, NoBody)

\* C10: the status and body of a response depend on the request alone: every
\* response is the one its request gets when taken alone, and so two answered
\* requests with the same method, path, content type and body got the same
\* status and body, whatever was handled before or beside them.
C10_Stateless ==
    /\ \A r \in Slots : Answered(r) => reqs[r].resp = ReplyTo(reqs[r].req)
    /\ \A r, q \in Slots :
        (Answered(r) /\ Answered(q) /\ reqs[r].req = reqs[q].req) =>
            /\ reqs[r].resp.status = reqs[q].resp.status
            /\ reqs[r].resp.body = reqs[q].resp.body

\* The same valid request was answered twice, the first time while another
\* /generate with another proof_id, received after it, was waiting.
C10_Witness ==
    \E r, o, q \in Slots :
        /\ r < o /\ o < q
        /\ Answered(r) /\ Answered(q) /\ reqs[r].req = reqs[q].req
        /\ ValidGenerate(reqs[r].req) /\ ValidGenerate(reqs[o].req)
        /\ reqs[o].req.body.proof_id # reqs[r].req.body.proof_id
        /\ reqs[o].sentAt < reqs[r].respAt
        /\ reqs[r].resp = reqs[q].resp

=============================================================================
